---- MODULE Spec2Model ----
(***************************************************************************)
(* Model of the host agent's HostReconciler                                *)
(* (agent/reconciler/host_reconciler.go).                                  *)
(*                                                                         *)
(* The persisted ByoHost object lives in apiHost.  Each worker runs one    *)
(* Reconcile invocation at a time: it fetches the object, snapshots it in  *)
(* a patch helper, runs exactly one of hostCleanUp / reconcileDelete /     *)
(* reconcileNormal on its in-memory copy, and the deferred helper.Patch    *)
(* writes the difference back.  Every call to a collaborator (API server,  *)
(* script executor, kubeadm reset, sentinel file, kube-vip) is a step of   *)
(* its own whose outcome is chosen nondeterministically, and is appended   *)
(* to the invocation's call log.                                           *)
(***************************************************************************)
EXTENDS Naturals, Sequences, FiniteSets

VARIABLES
    apiHost,       \* the ByoHost object as persisted in the API server
    sentinelFile,  \* whether /run/cluster-api/bootstrap-success.complete exists
    pc,            \* per worker: position inside Reconcile
    byoHost,       \* per worker: the in-memory object Reconcile mutates
    helper,        \* per worker: the patch helper's snapshot of the fetched object
    reterr,        \* per worker: the error Reconcile returns
    branch,        \* per worker: the branches this invocation has entered
    calls,         \* per worker: the collaborator calls of this invocation, in order
    patched,       \* per worker: outcome of the deferred helper.Patch
    prevRun,       \* history: the last returned invocation and the object it left
    sealed,        \* history: condition persisted true, no cleanup persisted since
    attempts       \* history: script executions while claimed and not yet true

vars == <<apiHost, sentinelFile, pc, byoHost, helper, reterr, branch, calls,
          patched, prevRun, sealed, attempts>>

workerVars == <<pc, byoHost, helper, reterr, branch, calls, patched>>
histVars == <<prevRun, sealed, attempts>>

\* Saturation point of the attempts counter.
MaxAttempts == 2

Workers == {"w1", "w2"}

\* Values of the EndPointIP annotation ("none": annotation absent).
Addresses == {"10.0.0.5", "10.0.0.6"}
NoAddress == "none"

-----------------------------------------------------------------------------
(* Conditions (sigs.k8s.io/cluster-api/util/conditions) on the one         *)
(* condition type the reconciler uses, K8sNodeBootstrapSucceeded.          *)

WaitingForMachineRefReason == "WaitingForMachineRef"
BootstrapDataSecretUnavailableReason == "BootstrapDataSecretUnavailable"
CloudInitExecutionFailedReason == "CloudInitExecutionFailed"
K8sNodeAbsentReason == "K8sNodeAbsent"

NoCondition == [status |-> "Unset", reason |-> "", severity |-> ""]
TrueCondition == [status |-> "True", reason |-> "", severity |-> ""]
FalseCondition(reason, severity) ==
    [status |-> "False", reason |-> reason, severity |-> severity]

ConditionValues ==
    {NoCondition, TrueCondition,
     FalseCondition(WaitingForMachineRefReason, "Info"),
     FalseCondition(BootstrapDataSecretUnavailableReason, "Info"),
     FalseCondition(CloudInitExecutionFailedReason, "Error"),
     FalseCondition(K8sNodeAbsentReason, "Info")}

\* The fields of ByoHost the reconciler reads or writes.
HostValues ==
    [machineRef        : BOOLEAN,   \* Status.MachineRef != nil
     bootstrapSecret   : BOOLEAN,   \* Spec.BootstrapSecret != nil
     cleanupAnnotation : BOOLEAN,   \* HostCleanupAnnotation present
     deletionTimestamp : BOOLEAN,   \* ObjectMeta.DeletionTimestamp set
     endPointIP        : Addresses \cup {NoAddress},
     clusterLabel      : BOOLEAN,   \* ClusterLabelName label present
     clusterVersion    : BOOLEAN,   \* ClusterVersionAnnotation present
     condition         : ConditionValues]

\* byoHost := &infrastructurev1alpha4.ByoHost{}
ZeroHost ==
    [machineRef |-> FALSE, bootstrapSecret |-> FALSE, cleanupAnnotation |-> FALSE,
     deletionTimestamp |-> FALSE, endPointIP |-> NoAddress, clusterLabel |-> FALSE,
     clusterVersion |-> FALSE, condition |-> NoCondition]

IsTrue(h) == h.condition.status = "True"

\* Mutant of MarkTrue: the condition is not written.
MarkTrueDropped(h) == h

MarkTrue(h) == [h EXCEPT !.condition = TrueCondition]

MarkFalse(h, reason, severity) ==
    [h EXCEPT !.condition = FalseCondition(reason, severity)]

-----------------------------------------------------------------------------
(* Pure parts of Reconcile.                                                *)

\* Mutant of ReconcileBranch: the deletion timestamp is looked at first.
ReconcileBranchDeletionFirst(h) ==
    IF h.deletionTimestamp THEN "reconcileDelete"
    ELSE IF h.cleanupAnnotation THEN "hostCleanUp"
    ELSE "reconcileNormal"

\* Mutant of ReconcileBranch: the deletion timestamp is not looked at.
ReconcileBranchNoDelete(h) ==
    IF h.cleanupAnnotation THEN "hostCleanUp" ELSE "reconcileNormal"

\* Reconcile, lines 58-73: which handler the invocation runs.
ReconcileBranch(h) ==
    IF h.cleanupAnnotation THEN "hostCleanUp"
    ELSE IF h.deletionTimestamp THEN "reconcileDelete"
    ELSE "reconcileNormal"

\* Mutant of NormalRung: a true condition is honoured before the bootstrap
\* secret is looked for.
NormalRungTrueFirst(h) ==
    IF ~h.machineRef THEN "unclaimed"
    ELSE IF IsTrue(h) THEN "bootstrapped"
    ELSE IF ~h.bootstrapSecret THEN "awaitingSecret"
    ELSE "bootstrapping"

\* Mutant of NormalRung: the condition is not consulted before bootstrapping.
NormalRungUnconditional(h) ==
    IF ~h.machineRef THEN "unclaimed"
    ELSE IF ~h.bootstrapSecret THEN "awaitingSecret"
    ELSE "bootstrapping"

\* Mutant of NormalRung: a failed execution is final, the script is not run again.
NormalRungNoRetry(h) ==
    IF ~h.machineRef THEN "unclaimed"
    ELSE IF ~h.bootstrapSecret THEN "awaitingSecret"
    ELSE IF ~IsTrue(h) /\ h.condition.reason # CloudInitExecutionFailedReason
    THEN "bootstrapping"
    ELSE "bootstrapped"

\* reconcileNormal, lines 77-89: the rung of the claim/bootstrap ladder.
NormalRung(h) ==
    IF ~h.machineRef THEN "unclaimed"
    ELSE IF ~h.bootstrapSecret THEN "awaitingSecret"
    ELSE IF ~IsTrue(h) THEN "bootstrapping"
    ELSE "bootstrapped"

\* Mutant of ClearReservation: the cluster-version annotation is left behind.
ClearReservationKeepsVersion(h) ==
    MarkFalse([h EXCEPT !.machineRef = FALSE,
                        !.clusterLabel = FALSE,
                        !.endPointIP = NoAddress,
                        !.cleanupAnnotation = FALSE],
              K8sNodeAbsentReason, "Info")

\* hostCleanUp, lines 156-171: release the reservation on the in-memory object.
ClearReservation(h) ==
    MarkFalse([h EXCEPT !.machineRef = FALSE,
                        !.clusterLabel = FALSE,
                        !.endPointIP = NoAddress,
                        !.cleanupAnnotation = FALSE,
                        !.clusterVersion = FALSE],
              K8sNodeAbsentReason, "Info")

\* Mutant of PatchResult: only the status (claim and condition) is written.
PatchResultStatusOnly(stored, before, after) ==
    [f \in DOMAIN stored |->
       IF f \in {"machineRef", "condition"} /\ after[f] # before[f]
       THEN after[f] ELSE stored[f]]

\* Mutant of PatchResult: the condition is never written.
PatchResultDropsCondition(stored, before, after) ==
    [f \in DOMAIN stored |->
       IF f # "condition" /\ after[f] # before[f] THEN after[f] ELSE stored[f]]

\* helper.Patch: the fields changed since the snapshot, applied to the stored object.
PatchResult(stored, before, after) ==
    [f \in DOMAIN stored |-> IF after[f] # before[f] THEN after[f] ELSE stored[f]]

\* Mutant of DeferredErr: a patch error replaces the branch's error.
DeferredErrPatchWins(err, patchErr) ==
    IF patchErr # "nil" THEN patchErr ELSE err

\* The deferred closure, lines 51-56: a patch error is returned only if
\* nothing else failed.
DeferredErr(err, patchErr) ==
    IF patchErr # "nil" /\ err = "nil" THEN patchErr ELSE err

Call(op, arg, res) == [op |-> op, arg |-> arg, res |-> res]

NoRun == [branch |-> {}, host |-> ZeroHost, err |-> "none", patched |-> "none"]

-----------------------------------------------------------------------------
Init ==
    /\ apiHost \in HostValues
    /\ sentinelFile = FALSE
    /\ pc = [p \in Workers |-> "idle"]
    /\ byoHost = [p \in Workers |-> ZeroHost]
    /\ helper = [p \in Workers |-> ZeroHost]
    /\ reterr = [p \in Workers |-> "nil"]
    /\ branch = [p \in Workers |-> {}]
    /\ calls = [p \in Workers |-> <<>>]
    /\ patched = [p \in Workers |-> "none"]
    /\ prevRun = NoRun
    /\ sealed = FALSE
    /\ attempts = 0

\* Reconcile, lines 43-50: fetch the object and snapshot it in the patch helper.
\* A failed fetch returns at once, before the deferred patch is registered.
Fetch(p) ==
    /\ pc[p] = "idle"
    /\ \E ok \in BOOLEAN :
         IF ok
         THEN /\ pc' = [pc EXCEPT ![p] = "fetched"]
              /\ byoHost' = [byoHost EXCEPT ![p] = apiHost]
              /\ helper' = [helper EXCEPT ![p] = apiHost]
              /\ reterr' = reterr
         ELSE /\ pc' = [pc EXCEPT ![p] = "done"]
              /\ reterr' = [reterr EXCEPT ![p] = "getErr"]
              /\ UNCHANGED <<byoHost, helper>>
    /\ UNCHANGED <<apiHost, sentinelFile, branch, calls, patched, histVars>>

\* Mutant of MarkWaiting: a condition that is true is not overwritten.
MarkWaitingKeepsTrue(h) ==
    IF IsTrue(h) THEN h
    ELSE IF NormalRung(h) = "unclaimed"
    THEN MarkFalse(h, WaitingForMachineRefReason, "Info")
    ELSE IF NormalRung(h) = "awaitingSecret"
    THEN MarkFalse(h, BootstrapDataSecretUnavailableReason, "Info")
    ELSE h

\* Mutant of MarkWaiting: the Unclaimed rung also drops the cluster label.
MarkWaitingDropsLabel(h) ==
    IF NormalRung(h) = "unclaimed"
    THEN MarkFalse([h EXCEPT !.clusterLabel = FALSE], WaitingForMachineRefReason, "Info")
    ELSE IF NormalRung(h) = "awaitingSecret"
    THEN MarkFalse(h, BootstrapDataSecretUnavailableReason, "Info")
    ELSE h

\* reconcileNormal, lines 77-87: the rungs that only mark the condition.
MarkWaiting(h) ==
    IF NormalRung(h) = "unclaimed"
    THEN MarkFalse(h, WaitingForMachineRefReason, "Info")
    ELSE IF NormalRung(h) = "awaitingSecret"
    THEN MarkFalse(h, BootstrapDataSecretUnavailableReason, "Info")
    ELSE h

\* The branch tag an invocation on h enters.
BranchTag(h) ==
    IF ReconcileBranch(h) = "reconcileNormal" THEN NormalRung(h) ELSE ReconcileBranch(h)

\* Mutant of FirstStep: the deletion branch returns without the deferred patch.
FirstStepSkipsPatch(h) ==
    IF BranchTag(h) = "hostCleanUp" THEN "cleanupReset"
    ELSE IF BranchTag(h) = "bootstrapping" THEN "getBootstrapScript"
    ELSE IF BranchTag(h) = "reconcileDelete" THEN "done"
    ELSE "patch"

\* Where Reconcile goes after choosing the branch for h.
FirstStep(h) ==
    IF BranchTag(h) = "hostCleanUp" THEN "cleanupReset"
    ELSE IF BranchTag(h) = "bootstrapping" THEN "getBootstrapScript"
    ELSE "patch"

\* Reconcile, lines 58-73, and reconcileNormal up to its first external call
\* (lines 77-89); reconcileDelete (lines 110-112) does nothing.
Dispatch(p) ==
    /\ pc[p] = "fetched"
    /\ branch' = [branch EXCEPT ![p] = @ \cup {BranchTag(byoHost[p])}]
    /\ byoHost' = [byoHost EXCEPT ![p] =
                     IF ReconcileBranch(@) = "reconcileNormal" THEN MarkWaiting(@) ELSE @]
    /\ pc' = [pc EXCEPT ![p] = FirstStep(byoHost[p])]
    /\ UNCHANGED <<apiHost, sentinelFile, helper, reterr, calls, patched, histVars>>

\* Mutant of GetBootstrapScript: the script is executed although the secret
\* could not be read.
GetBootstrapScriptProceeds(p) ==
    /\ pc[p] = "getBootstrapScript"
    /\ \E ok \in BOOLEAN :
         /\ calls' = [calls EXCEPT ![p] =
                        Append(@, Call("getSecret", "", IF ok THEN "ok" ELSE "err"))]
         /\ pc' = [pc EXCEPT ![p] = "bootstrapK8sNode"]
         /\ reterr' = IF ok THEN reterr ELSE [reterr EXCEPT ![p] = "secretErr"]
    /\ UNCHANGED <<apiHost, sentinelFile, byoHost, helper, branch, patched, histVars>>

\* reconcileNormal, lines 90-94, and getBootstrapScript, lines 114-123.
GetBootstrapScript(p) ==
    /\ pc[p] = "getBootstrapScript"
    /\ \E ok \in BOOLEAN :
         /\ calls' = [calls EXCEPT ![p] =
                        Append(@, Call("getSecret", "", IF ok THEN "ok" ELSE "err"))]
         /\ IF ok
            THEN /\ pc' = [pc EXCEPT ![p] = "bootstrapK8sNode"]
                 /\ reterr' = reterr
            ELSE /\ pc' = [pc EXCEPT ![p] = "patch"]
                 /\ reterr' = [reterr EXCEPT ![p] = "secretErr"]
    /\ UNCHANGED <<apiHost, sentinelFile, byoHost, helper, branch, patched, histVars>>

\* One more script execution against a claimed host whose condition is not yet true.
CountAttempt(n) == IF n < MaxAttempts THEN n + 1 ELSE n

\* reconcileNormal, lines 95-96 and 102-104, and bootstrapK8sNode, lines 187-192.
\* The script may leave the sentinel file behind.
BootstrapK8sNode(p) ==
    /\ pc[p] = "bootstrapK8sNode"
    /\ \E ok \in BOOLEAN, created \in BOOLEAN :
         /\ calls' = [calls EXCEPT ![p] =
                        Append(@, Call("execute", "", IF ok THEN "ok" ELSE "err"))]
         /\ sentinelFile' = (sentinelFile \/ created)
         /\ IF ok
            THEN /\ byoHost' = [byoHost EXCEPT ![p] = MarkTrue(@)]
                 /\ pc' = [pc EXCEPT ![p] = "patch"]
            ELSE /\ byoHost' = byoHost
                 /\ pc' = [pc EXCEPT ![p] = "bootstrapFailed"]
    /\ attempts' = CountAttempt(attempts)
    /\ UNCHANGED <<apiHost, helper, reterr, branch, patched, prevRun, sealed>>

\* Mutant of BootstrapFailureErr: a failed reset replaces the script's error.
BootstrapFailureErrMasked(resetOk) == IF resetOk THEN "scriptErr" ELSE "resetErr"

\* reconcileNormal, lines 97-100: the error returned after a failed script,
\* given the outcome of the reset.
BootstrapFailureErr(resetOk) == "scriptErr"

\* reconcileNormal, lines 97-100, and resetNode, lines 175-185.
BootstrapFailed(p) ==
    /\ pc[p] = "bootstrapFailed"
    /\ \E resetOk \in BOOLEAN :
         /\ calls' = [calls EXCEPT ![p] =
                        Append(@, Call("reset", "", IF resetOk THEN "ok" ELSE "err"))]
         /\ reterr' = [reterr EXCEPT ![p] = BootstrapFailureErr(resetOk)]
    /\ byoHost' = [byoHost EXCEPT ![p] =
                     MarkFalse(@, CloudInitExecutionFailedReason, "Error")]
    /\ pc' = [pc EXCEPT ![p] = "patch"]
    /\ UNCHANGED <<apiHost, sentinelFile, helper, branch, patched, histVars>>

\* Mutant of CleanupReset: the cleanup goes on after a failed reset.
CleanupResetContinues(p) ==
    /\ pc[p] = "cleanupReset"
    /\ \E ok \in BOOLEAN :
         /\ calls' = [calls EXCEPT ![p] =
                        Append(@, Call("reset", "", IF ok THEN "ok" ELSE "err"))]
         /\ pc' = [pc EXCEPT ![p] = "cleanupSentinel"]
         /\ reterr' = IF ok THEN reterr ELSE [reterr EXCEPT ![p] = "resetErr"]
    /\ UNCHANGED <<apiHost, sentinelFile, byoHost, helper, branch, patched, histVars>>

\* hostCleanUp, lines 133-136, and resetNode, lines 175-185.
CleanupReset(p) ==
    /\ pc[p] = "cleanupReset"
    /\ \E ok \in BOOLEAN :
         /\ calls' = [calls EXCEPT ![p] =
                        Append(@, Call("reset", "", IF ok THEN "ok" ELSE "err"))]
         /\ IF ok
            THEN /\ pc' = [pc EXCEPT ![p] = "cleanupSentinel"]
                 /\ reterr' = reterr
            ELSE /\ pc' = [pc EXCEPT ![p] = "patch"]
                 /\ reterr' = [reterr EXCEPT ![p] = "resetErr"]
    /\ UNCHANGED <<apiHost, sentinelFile, byoHost, helper, branch, patched, histVars>>

\* hostCleanUp, lines 138-144.  os.Stat reports the file absent (nothing to do)
\* or fails otherwise; os.Remove is then called and can only succeed on a file
\* that exists.
CleanupSentinel(p) ==
    /\ pc[p] = "cleanupSentinel"
    /\ \E notExist \in BOOLEAN, removed \in BOOLEAN :
         /\ notExist => ~sentinelFile
         /\ removed => sentinelFile
         /\ IF notExist
            THEN /\ pc' = [pc EXCEPT ![p] = "cleanupReleaseIP"]
                 /\ UNCHANGED <<calls, reterr, sentinelFile>>
            ELSE /\ calls' = [calls EXCEPT ![p] =
                        Append(@, Call("removeSentinel", "", IF removed THEN "ok" ELSE "err"))]
                 /\ sentinelFile' = (sentinelFile /\ ~removed)
                 /\ IF removed
                    THEN /\ pc' = [pc EXCEPT ![p] = "cleanupReleaseIP"]
                         /\ reterr' = reterr
                    ELSE /\ pc' = [pc EXCEPT ![p] = "patch"]
                         /\ reterr' = [reterr EXCEPT ![p] = "sentinelErr"]
    /\ UNCHANGED <<apiHost, byoHost, helper, branch, patched, histVars>>

\* Mutant of ReleaseCalls: kube-vip is called whether or not the object
\* carries the EndPointIP annotation.
ReleaseCallsAlways(ip, configured, deleted) ==
    IF ~configured THEN <<Call("newConfig", ip, "err")>>
    ELSE <<Call("newConfig", ip, "ok"),
           Call("deleteIP", ip, IF deleted THEN "ok" ELSE "err")>>

\* hostCleanUp, lines 146-154: the kube-vip calls made for an object whose
\* EndPointIP annotation is ip, given whether vip.NewConfig and DeleteIP succeed.
ReleaseCalls(ip, configured, deleted) ==
    IF ip = NoAddress THEN <<>>
    ELSE IF ~configured THEN <<Call("newConfig", ip, "err")>>
    ELSE <<Call("newConfig", ip, "ok"),
           Call("deleteIP", ip, IF deleted THEN "ok" ELSE "err")>>

\* Mutant of ReleaseFailed: a DeleteIP failure is ignored.
ReleaseFailedIgnored(ip, configured, deleted) == FALSE

\* hostCleanUp, lines 146-154: only a DeleteIP failure aborts the cleanup.
ReleaseFailed(ip, configured, deleted) ==
    ip # NoAddress /\ configured /\ ~deleted

\* hostCleanUp, lines 146-172: release the address, then clear the reservation.
CleanupReleaseIP(p) ==
    /\ pc[p] = "cleanupReleaseIP"
    /\ \E configured \in BOOLEAN, deleted \in BOOLEAN :
         LET ip == byoHost[p].endPointIP IN
         /\ (ip = NoAddress) => (configured /\ deleted)
         /\ ~configured => deleted
         /\ calls' = [calls EXCEPT ![p] = @ \o ReleaseCalls(ip, configured, deleted)]
         /\ IF ReleaseFailed(ip, configured, deleted)
            THEN /\ reterr' = [reterr EXCEPT ![p] = "releaseErr"]
                 /\ byoHost' = byoHost
            ELSE /\ reterr' = reterr
                 /\ byoHost' = [byoHost EXCEPT ![p] = ClearReservation(@)]
    /\ pc' = [pc EXCEPT ![p] = "patch"]
    /\ UNCHANGED <<apiHost, sentinelFile, helper, branch, patched, histVars>>

\* The attempts counter runs while the stored object is claimed, has a
\* bootstrap secret and is not yet marked true.
TrackAttempts(n, h) ==
    IF h.machineRef /\ h.bootstrapSecret /\ ~IsTrue(h) THEN n ELSE 0

\* Reconcile, lines 51-56: the deferred helper.Patch and the returned error.
\* The one call is taken as one write: applied whole when it returns nil,
\* not applied when it returns an error.
Patch(p) ==
    /\ pc[p] = "patch"
    /\ \E ok \in BOOLEAN :
         /\ apiHost' = IF ok THEN PatchResult(apiHost, helper[p], byoHost[p]) ELSE apiHost
         /\ patched' = [patched EXCEPT ![p] = IF ok THEN "ok" ELSE "err"]
         /\ reterr' = [reterr EXCEPT ![p] =
                         DeferredErr(@, IF ok THEN "nil" ELSE "patchErr")]
         /\ sealed' = IF ok /\ "bootstrapping" \in branch[p] /\ IsTrue(byoHost[p])
                      THEN TRUE
                      ELSE IF ok /\ "hostCleanUp" \in branch[p]
                                 /\ byoHost[p].condition.reason = K8sNodeAbsentReason
                      THEN FALSE
                      ELSE sealed
    /\ attempts' = TrackAttempts(attempts, apiHost')
    /\ pc' = [pc EXCEPT ![p] = "done"]
    /\ UNCHANGED <<sentinelFile, byoHost, helper, branch, calls, prevRun>>

\* Reconcile returns to the controller runtime: the invocation is over.
Return(p) ==
    /\ pc[p] = "done"
    /\ prevRun' = [branch |-> branch[p], host |-> apiHost, err |-> reterr[p],
                   patched |-> patched[p]]
    /\ pc' = [pc EXCEPT ![p] = "idle"]
    /\ byoHost' = [byoHost EXCEPT ![p] = ZeroHost]
    /\ helper' = [helper EXCEPT ![p] = ZeroHost]
    /\ reterr' = [reterr EXCEPT ![p] = "nil"]
    /\ branch' = [branch EXCEPT ![p] = {}]
    /\ calls' = [calls EXCEPT ![p] = <<>>]
    /\ patched' = [patched EXCEPT ![p] = "none"]
    /\ UNCHANGED <<apiHost, sentinelFile, sealed, attempts>>

-----------------------------------------------------------------------------
(* Changes other controllers and operators make to the stored object.      *)

ExternalChange(h) ==
    /\ apiHost' = h
    /\ attempts' = TrackAttempts(attempts, h)
    /\ prevRun' = NoRun
    /\ UNCHANGED <<sentinelFile, workerVars, sealed>>

\* The machine controller claims a free host.
ExternalClaim ==
    /\ ~apiHost.machineRef
    /\ ExternalChange([apiHost EXCEPT !.machineRef = TRUE])

\* The bootstrap secret reference is set or removed in the object's spec.
ExternalSetBootstrapSecret ==
    ExternalChange([apiHost EXCEPT !.bootstrapSecret = ~@])

\* The cleanup annotation is put on the host.
ExternalRequestCleanup ==
    /\ ~apiHost.cleanupAnnotation
    /\ ExternalChange([apiHost EXCEPT !.cleanupAnnotation = TRUE])

\* The object is deleted: the API server sets its deletion timestamp.
ExternalRequestDeletion ==
    /\ ~apiHost.deletionTimestamp
    /\ ExternalChange([apiHost EXCEPT !.deletionTimestamp = TRUE])

-----------------------------------------------------------------------------
\* No invocation is in progress.
Quiet == \A q \in Workers : pc[q] = "idle"

\* The controller runtime hands a request for the host to a worker; requests
\* for one object are never processed concurrently.
Start(p) == Quiet /\ Fetch(p)

Next ==
    \/ \E p \in Workers :
         \/ Start(p)
         \/ Dispatch(p)
         \/ GetBootstrapScript(p)
         \/ BootstrapK8sNode(p)
         \/ BootstrapFailed(p)
         \/ CleanupReset(p)
         \/ CleanupSentinel(p)
         \/ CleanupReleaseIP(p)
         \/ Patch(p)
         \/ Return(p)
    \/ Quiet /\ ExternalClaim
    \/ Quiet /\ ExternalSetBootstrapSecret
    \/ Quiet /\ ExternalRequestCleanup
    \/ Quiet /\ ExternalRequestDeletion

Spec == Init /\ [][Next]_vars

TypeOK ==
    /\ apiHost \in HostValues
    /\ sentinelFile \in BOOLEAN
    /\ \A p \in Workers : byoHost[p] \in HostValues /\ helper[p] \in HostValues
    /\ attempts \in 0..MaxAttempts
    /\ sealed \in BOOLEAN

-----------------------------------------------------------------------------
(* Vocabulary of the properties.                                           *)

\* The invocation of worker p has run its branch to the end (the deferred
\* patch is next, or has run).
Ran(p) == pc[p] \in {"patch", "done"} /\ branch[p] # {}

\* The invocation of worker p has returned after its patch was accepted.
Persisted(p) == pc[p] = "done" /\ patched[p] = "ok"

CallsOf(p, op) == {i \in DOMAIN calls[p] : calls[p][i].op = op}

Called(p, op, res) == \E i \in DOMAIN calls[p] : calls[p][i].op = op /\ calls[p][i].res = res

OnLadder(h) == ~h.cleanupAnnotation /\ ~h.deletionTimestamp

ScriptFailed == FalseCondition(CloudInitExecutionFailedReason, "Error")
NodeAbsent == FalseCondition(K8sNodeAbsentReason, "Info")
WaitingForClaim == FalseCondition(WaitingForMachineRefReason, "Info")
WaitingForSecret == FalseCondition(BootstrapDataSecretUnavailableReason, "Info")

\* Some worker executes the bootstrap script in this step.
ScriptRuns == \E p \in Workers : pc[p] = "bootstrapK8sNode" /\ pc'[p] # "bootstrapK8sNode"

-----------------------------------------------------------------------------
\* C1: on a claimed host with a bootstrap secret, no cleanup annotation and no
\* deletion timestamp, an invocation that reads a condition that is not true
\* fetches the secret, runs the script and, when both succeed, marks the
\* condition true (persisted when the patch is accepted); an invocation that
\* reads a true condition calls no collaborator and leaves the object, and so
\* the true condition, as it is.
C1_BootstrapThenNoOp ==
    \A p \in Workers :
      (Ran(p) /\ helper[p].machineRef /\ helper[p].bootstrapSecret /\ OnLadder(helper[p]))
      => IF IsTrue(helper[p])
         THEN /\ calls[p] = <<>>
              /\ byoHost[p] = helper[p]
              /\ reterr[p] \in {"nil", "patchErr"}
              /\ pc[p] = "done" => IsTrue(apiHost)
         ELSE /\ Len(calls[p]) >= 1
              /\ calls[p][1].op = "getSecret"
              /\ calls[p][1].res = "ok" =>
                   /\ Len(calls[p]) >= 2
                   /\ calls[p][2].op = "execute"
                   /\ calls[p][2].res = "ok" =>
                        /\ Len(calls[p]) = 2
                        /\ IsTrue(byoHost[p])
                        /\ reterr[p] \in {"nil", "patchErr"}
                        /\ Persisted(p) => IsTrue(apiHost)

\* C1 witness: an invocation has returned from the Bootstrapped rung without a
\* single call, right after the invocation that bootstrapped the host.
C1_Witness ==
    \E p \in Workers :
      /\ pc[p] = "done" /\ branch[p] = {"bootstrapped"} /\ calls[p] = <<>>
      /\ IsTrue(apiHost)
      /\ prevRun.branch = {"bootstrapping"} /\ prevRun.err = "nil"

\* C2: when the script fails, the invocation calls reset exactly once, marks the
\* condition false with CloudInitExecutionFailed and returns the script's
\* error, whatever the reset and the patch return.
C2_ScriptFailure ==
    \A p \in Workers :
      (Ran(p) /\ Called(p, "execute", "err"))
      => /\ Cardinality(CallsOf(p, "reset")) = 1
         /\ calls[p][Len(calls[p])].op = "reset"
         /\ byoHost[p].condition = ScriptFailed
         /\ reterr[p] = "scriptErr"
         /\ Persisted(p) => apiHost.condition = ScriptFailed

\* C2 witness: the script failed, then the reset failed too, and the invocation
\* has returned.
C2_Witness ==
    \E p \in Workers :
      /\ pc[p] = "done" /\ Called(p, "execute", "err") /\ Called(p, "reset", "err")
      /\ apiHost.condition = ScriptFailed

\* What hostCleanUp releases: the claim, the address annotation, the cleanup
\* annotation, the cluster label and the cluster-version annotation.
Reservation(h) ==
    <<h.machineRef, h.endPointIP # NoAddress, h.cleanupAnnotation, h.clusterLabel,
      h.clusterVersion>>

Released == <<FALSE, FALSE, FALSE, FALSE, FALSE>>

\* Every collaborator call of worker p's invocation succeeded.
AllCallsOk(p) == \A i \in DOMAIN calls[p] : calls[p][i].res = "ok"

\* C3: cleanup of a host that carries an address annotation and a cluster
\* label, with reset, sentinel removal and address release all succeeding:
\* the claim, address annotation, cleanup annotation, cluster label and
\* cluster-version annotation are gone, the condition is false with
\* K8sNodeAbsent, reset ran exactly once and DeleteIP ran exactly once, for
\* the annotated address; an accepted patch persists exactly that.
C3_CleanupReleasesHost ==
    \A p \in Workers :
      (/\ Ran(p) /\ helper[p].cleanupAnnotation
       /\ helper[p].endPointIP # NoAddress /\ helper[p].clusterLabel
       /\ AllCallsOk(p))
      => /\ Reservation(byoHost[p]) = Released
         /\ byoHost[p].condition = NodeAbsent
         /\ Cardinality(CallsOf(p, "reset")) = 1
         /\ Cardinality(CallsOf(p, "deleteIP")) = 1
         /\ \A i \in CallsOf(p, "deleteIP") : calls[p][i].arg = helper[p].endPointIP
         /\ reterr[p] \in {"nil", "patchErr"}
         /\ Persisted(p) => (Reservation(apiHost) = Released /\ apiHost.condition = NodeAbsent)

\* C3 witness: such a cleanup has returned, its patch accepted; the host was
\* bootstrapped, carried a cluster-version annotation and its sentinel file
\* had to be removed.
C3_Witness ==
    \E p \in Workers :
      /\ Persisted(p) /\ helper[p].cleanupAnnotation /\ helper[p].machineRef
      /\ helper[p].endPointIP = "10.0.0.5" /\ helper[p].clusterLabel
      /\ helper[p].clusterVersion /\ IsTrue(helper[p])
      /\ Called(p, "removeSentinel", "ok") /\ Called(p, "deleteIP", "ok")
      /\ reterr[p] = "nil"
      /\ Reservation(apiHost) = Released

CleanupErr(op) ==
    IF op = "reset" THEN "resetErr"
    ELSE IF op = "removeSentinel" THEN "sentinelErr"
    ELSE IF op = "deleteIP" THEN "releaseErr"
    ELSE "nil"

\* C5: when the reset, the removal of the sentinel file or DeleteIP fails
\* during cleanup, that call is the last one the invocation makes, its error
\* is the one returned, and the object is left as it was read, in memory and
\* in the store.
C5_CleanupAbortsOnError ==
    \A p \in Workers :
      \A i \in DOMAIN calls[p] :
        (/\ Ran(p) /\ "hostCleanUp" \in branch[p]
         /\ calls[p][i].res = "err" /\ CleanupErr(calls[p][i].op) # "nil")
        => /\ i = Len(calls[p])
           /\ reterr[p] = CleanupErr(calls[p][i].op)
           /\ byoHost[p] = helper[p]
           /\ pc[p] = "done" => apiHost = helper[p]

\* C5 witness: DeleteIP failed after reset and sentinel removal had succeeded,
\* and the invocation has returned with the host still reserved.
C5_Witness ==
    \E p \in Workers :
      /\ Persisted(p) /\ Called(p, "deleteIP", "err") /\ Called(p, "removeSentinel", "ok")
      /\ reterr[p] = "releaseErr"
      /\ apiHost.machineRef /\ apiHost.cleanupAnnotation /\ IsTrue(apiHost)

CleanupOps == {"reset", "removeSentinel", "newConfig", "deleteIP"}
BootstrapOps == {"getSecret", "execute", "reset"}

OpsOf(p) == {calls[p][i].op : i \in DOMAIN calls[p]}

\* What an invocation that ran exactly the cleanup branch looks like.
DidCleanup(p) ==
    /\ calls[p] # <<>> /\ calls[p][1].op = "reset"
    /\ OpsOf(p) \subseteq CleanupOps
    /\ byoHost[p] \in {helper[p], ClearReservation(helper[p])}

\* ... exactly the deletion branch, or the Bootstrapped rung: nothing at all.
DidNothing(p) == calls[p] = <<>> /\ byoHost[p] = helper[p]

\* ... exactly the Unclaimed or the AwaitingSecret rung.
DidMark(p, condition) ==
    calls[p] = <<>> /\ byoHost[p] = [helper[p] EXCEPT !.condition = condition]

\* ... exactly the Bootstrapping rung.
DidBootstrap(p) ==
    /\ calls[p] # <<>> /\ calls[p][1].op = "getSecret"
    /\ OpsOf(p) \subseteq BootstrapOps
    /\ byoHost[p] \in {helper[p], MarkTrue(helper[p]),
                       [helper[p] EXCEPT !.condition = ScriptFailed]}

\* C6: an invocation enters exactly one branch and does that branch's work
\* and no other's: cleanup whenever the cleanup annotation is present;
\* otherwise the deletion no-op whenever the deletion timestamp is set;
\* otherwise the one rung of Unclaimed, AwaitingSecret, Bootstrapping,
\* Bootstrapped that the object read is on.
C6_OneBranchByPrecedence ==
    \A p \in Workers :
      Ran(p)
      => /\ Cardinality(branch[p]) = 1
         /\ IF helper[p].cleanupAnnotation
            THEN branch[p] = {"hostCleanUp"} /\ DidCleanup(p)
            ELSE IF helper[p].deletionTimestamp
            THEN branch[p] = {"reconcileDelete"} /\ DidNothing(p)
            ELSE IF ~helper[p].machineRef
            THEN branch[p] = {"unclaimed"} /\ DidMark(p, WaitingForClaim)
            ELSE IF ~helper[p].bootstrapSecret
            THEN branch[p] = {"awaitingSecret"} /\ DidMark(p, WaitingForSecret)
            ELSE IF ~IsTrue(helper[p])
            THEN branch[p] = {"bootstrapping"} /\ DidBootstrap(p)
            ELSE branch[p] = {"bootstrapped"} /\ DidNothing(p)

\* C6 witness: cleanup has run on a host that is also being deleted, is
\* unclaimed and is marked bootstrapped.
C6_Witness ==
    \E p \in Workers :
      /\ pc[p] = "done" /\ branch[p] = {"hostCleanUp"}
      /\ helper[p].deletionTimestamp /\ ~helper[p].machineRef /\ IsTrue(helper[p])
      /\ Called(p, "reset", "ok")

\* C7 as stated: on every host with no claim, whatever else is set on it, an
\* invocation calls no collaborator and changes nothing but the condition,
\* which becomes false with WaitingForMachineRef.
C7_AnyUnclaimedHost ==
    \A p \in Workers :
      (Ran(p) /\ ~helper[p].machineRef) => DidMark(p, WaitingForClaim)

\* C7 as amended: the same, for hosts with no claim, no cleanup annotation and
\* no deletion timestamp (whatever the prior condition and the bootstrap
\* secret); an accepted patch persists that condition and nothing else.
C7_UnclaimedOnLadder ==
    \A p \in Workers :
      (Ran(p) /\ ~helper[p].machineRef /\ OnLadder(helper[p]))
      => /\ DidMark(p, WaitingForClaim)
         /\ reterr[p] \in {"nil", "patchErr"}
         /\ Persisted(p) => apiHost = [helper[p] EXCEPT !.condition = WaitingForClaim]

\* C7 witness: an unclaimed host that had a bootstrap secret and a true
\* condition has been reconciled and persisted.
C7_Witness ==
    \E p \in Workers :
      /\ Persisted(p) /\ ~helper[p].machineRef /\ OnLadder(helper[p])
      /\ helper[p].bootstrapSecret /\ IsTrue(helper[p])
      /\ apiHost.condition = WaitingForClaim

\* C8 as stated: on every claimed host without a bootstrap secret an
\* invocation calls no collaborator and sets the condition false with
\* BootstrapDataSecretUnavailable.
C8_AnyHostAwaitingSecret ==
    \A p \in Workers :
      (Ran(p) /\ helper[p].machineRef /\ ~helper[p].bootstrapSecret)
      => DidMark(p, WaitingForSecret)

\* C8 as amended: the same, for claimed hosts without a bootstrap secret that
\* have no cleanup annotation and no deletion timestamp; and an invocation on
\* the object an earlier such invocation persisted leaves it as it is.
C8_AwaitingSecretIdempotent ==
    \A p \in Workers :
      (Ran(p) /\ helper[p].machineRef /\ ~helper[p].bootstrapSecret /\ OnLadder(helper[p]))
      => /\ DidMark(p, WaitingForSecret)
         /\ reterr[p] \in {"nil", "patchErr"}
         /\ Persisted(p) => apiHost = [helper[p] EXCEPT !.condition = WaitingForSecret]
         /\ (prevRun.branch = {"awaitingSecret"} /\ prevRun.patched = "ok")
              => (byoHost[p] = helper[p] /\ byoHost[p] = prevRun.host)

\* C8 witness: a second invocation in a row has returned from the
\* AwaitingSecret rung.
C8_Witness ==
    \E p \in Workers :
      /\ Persisted(p) /\ branch[p] = {"awaitingSecret"}
      /\ prevRun.branch = {"awaitingSecret"} /\ prevRun.patched = "ok"
      /\ apiHost.condition = WaitingForSecret

\* Some worker's patch turns the stored condition from true to not true.
ConditionRevoked == IsTrue(apiHost) /\ ~IsTrue(apiHost')

\* C9 as stated: once an invocation has persisted the condition as true, the
\* script is not executed again until a cleanup invocation has persisted it as
\* false with K8sNodeAbsent.
C9_OnlyCleanupReopens == [][sealed => ~ScriptRuns]_vars

\* C9 as amended: the script is never executed while the stored condition is
\* true, and a true stored condition is turned into one that is not true only
\* by the patch of a cleanup invocation (K8sNodeAbsent), of an invocation that
\* found the host unclaimed (WaitingForMachineRef) or of one that found it
\* without a bootstrap secret (BootstrapDataSecretUnavailable).
C9_ReopenedByThreeBranches ==
    [][/\ IsTrue(apiHost) => ~ScriptRuns
       /\ ConditionRevoked =>
            \E p \in Workers :
              /\ pc[p] = "patch" /\ pc'[p] = "done"
              /\ \/ branch[p] = {"hostCleanUp"} /\ apiHost'.condition = NodeAbsent
                 \/ branch[p] = {"unclaimed"} /\ apiHost'.condition = WaitingForClaim
                 \/ branch[p] = {"awaitingSecret"} /\ apiHost'.condition = WaitingForSecret]_vars

\* C9 witness: the script has been executed again on a host whose condition an
\* earlier invocation had persisted as true, with no cleanup in between.
C9_Witness ==
    \E p \in Workers :
      /\ sealed /\ pc[p] = "patch" /\ branch[p] = {"bootstrapping"}
      /\ Called(p, "execute", "ok")
      /\ apiHost.condition = WaitingForSecret

C11_PatchOnceAtTheEnd ==
    \A p \in Workers :
      /\ pc[p] # "done" => patched[p] = "none"
      /\ pc[p] \notin {"idle", "done"} => apiHost = helper[p]
      /\ (pc[p] = "done" /\ branch[p] # {}) => patched[p] \in {"ok", "err"}
      /\ Persisted(p) => apiHost = byoHost[p]
      /\ (Persisted(p) /\ Called(p, "execute", "err"))
           => (apiHost.condition = ScriptFailed /\ reterr[p] = "scriptErr")

\* C11 witness: an invocation has returned the script error and its patch has
\* replaced the stored condition by CloudInitExecutionFailed.
C11_Witness ==
    \E p \in Workers :
      /\ Persisted(p) /\ Called(p, "execute", "err") /\ reterr[p] = "scriptErr"
      /\ helper[p].condition = NoCondition
      /\ apiHost.condition = ScriptFailed

\* C13: an invocation that reads a deletion timestamp and no cleanup
\* annotation runs the deletion branch only: no collaborator is called, the
\* in-memory object is left as read, the branch sets no error (the returned
\* error is nil unless the deferred patch call itself fails), and the stored
\* object is as it was read.
C13_DeletionIsNoOp ==
    \A p \in Workers :
      (Ran(p) /\ helper[p].deletionTimestamp /\ ~helper[p].cleanupAnnotation)
        => /\ branch[p] = {"reconcileDelete"}
           /\ DidNothing(p)
           /\ reterr[p] = (IF patched[p] = "err" THEN "patchErr" ELSE "nil")
           /\ pc[p] = "done" => apiHost = helper[p]

\* C13 witness: a claimed, not yet bootstrapped host with a bootstrap secret
\* and a deletion timestamp has been reconciled and nothing has happened.
C13_Witness ==
    \E p \in Workers :
      /\ Persisted(p) /\ reterr[p] = "nil"
      /\ helper[p].deletionTimestamp /\ ~helper[p].cleanupAnnotation
      /\ helper[p].machineRef /\ helper[p].bootstrapSecret /\ ~IsTrue(helper[p])
      /\ calls[p] = <<>> /\ apiHost = helper[p]

\* C14: cleanup of an object that carries no EndPointIP annotation never
\* calls kube-vip (neither vip.NewConfig nor DeleteIP); when reset and
\* sentinel removal succeed the cleanup succeeds: the reservation is cleared,
\* the condition is false with K8sNodeAbsent, the branch sets no error, and an
\* accepted patch persists that.
C14_CleanupWithoutAddress ==
    \A p \in Workers :
      (Ran(p) /\ helper[p].cleanupAnnotation /\ helper[p].endPointIP = NoAddress)
        => /\ CallsOf(p, "newConfig") = {} /\ CallsOf(p, "deleteIP") = {}
           /\ AllCallsOk(p)
                => /\ Reservation(byoHost[p]) = Released
                   /\ byoHost[p].condition = NodeAbsent
                   /\ reterr[p] = (IF patched[p] = "err" THEN "patchErr" ELSE "nil")
                   /\ Persisted(p)
                        => (Reservation(apiHost) = Released
                            /\ apiHost.condition = NodeAbsent)

\* C14 witness: a claimed, labelled host without address annotation has been
\* cleaned up and the cleared object has been persisted.
C14_Witness ==
    \E p \in Workers :
      /\ Persisted(p) /\ reterr[p] = "nil"
      /\ helper[p].cleanupAnnotation /\ helper[p].endPointIP = NoAddress
      /\ helper[p].machineRef /\ helper[p].clusterLabel /\ IsTrue(helper[p])
      /\ Called(p, "reset", "ok")
      /\ Reservation(apiHost) = Released /\ apiHost.condition = NodeAbsent

\* C15: when the host cannot be fetched the invocation returns that error,
\* calls no collaborator and writes nothing; when the bootstrap secret cannot
\* be fetched the invocation returns that error after that one call: no
\* script is executed, no reset is run, the in-memory object keeps every
\* field as read and so does the stored object.
C15_FetchFailures ==
    \A p \in Workers :
      /\ (pc[p] = "done" /\ branch[p] = {})
           => (reterr[p] = "getErr" /\ calls[p] = <<>> /\ patched[p] = "none")
      /\ (Ran(p) /\ Called(p, "getSecret", "err"))
           => /\ calls[p] = <<Call("getSecret", "", "err")>>
              /\ byoHost[p] = helper[p]
              /\ reterr[p] = "secretErr"
              /\ pc[p] = "done" => apiHost = helper[p]

\* C15 witness: after an invocation that could not fetch the host, the next
\* one has read a claimed host but not its bootstrap secret, and has returned.
C15_Witness ==
    \E p \in Workers :
      /\ prevRun.err = "getErr" /\ prevRun.branch = {}
      /\ pc[p] = "done" /\ Called(p, "getSecret", "err") /\ reterr[p] = "secretErr"
      /\ helper[p].condition = ScriptFailed /\ apiHost = helper[p]

\* C16: an invocation that reads no cleanup annotation changes nothing but
\* the K8sNodeBootstrapSucceeded condition: the claim, the bootstrap secret
\* reference, the cluster label, the annotations (EndPointIP, cluster
\* version, cleanup) and the deletion timestamp of the in-memory object are
\* as read when its branch is over, and those of the stored object are as
\* read when it has returned.
C16_OnlyTheConditionIsWritten ==
    \A p \in Workers :
      (Ran(p) /\ ~helper[p].cleanupAnnotation)
        => /\ byoHost[p] = [helper[p] EXCEPT !.condition = byoHost[p].condition]
           /\ pc[p] = "done"
                => apiHost = [helper[p] EXCEPT !.condition = apiHost.condition]

\* C16 witness: an unclaimed host that carries a label and both annotations
\* has been marked as waiting for a claim, and only its condition differs
\* from what was read.
C16_Witness ==
    \E p \in Workers :
      /\ Persisted(p) /\ ~helper[p].cleanupAnnotation /\ ~helper[p].machineRef
      /\ helper[p].clusterLabel /\ helper[p].clusterVersion
      /\ helper[p].endPointIP # NoAddress
      /\ apiHost.condition = WaitingForClaim /\ helper[p].condition = TrueCondition
      /\ apiHost = [helper[p] EXCEPT !.condition = WaitingForClaim]

\* C18: the error Reconcile returns after its deferred patch: the branch's
\* error whenever the branch failed, whether or not the patch failed too;
\* the patch error when the branch succeeded and the patch failed; nil only
\* when the branch succeeded and the patch was accepted.
C18_ReturnedError ==
    [][\A p \in Workers :
         (pc[p] = "patch" /\ pc'[p] = "done")
           => reterr'[p] = IF reterr[p] # "nil" THEN reterr[p]
                           ELSE IF patched'[p] = "err" THEN "patchErr"
                           ELSE "nil"]_vars

\* C18 witness: the cleanup's reset failed, the patch failed too, and the
\* reset error is the one returned.
C18_Witness ==
    \E p \in Workers :
      /\ pc[p] = "done" /\ patched[p] = "err"
      /\ Called(p, "reset", "err") /\ branch[p] = {"hostCleanUp"}
      /\ reterr[p] = "resetErr"

\* The stored object loses its cleanup annotation in this step.
MarkerRemoved == apiHost.cleanupAnnotation /\ ~apiHost'.cleanupAnnotation

\* Worker p's cleanup ran reset and no reset, sentinel removal or DeleteIP
\* call of it failed (vip.NewConfig failing counts as nothing to release).
CleanupSucceeded(p) ==
    /\ branch[p] = {"hostCleanUp"}
    /\ Called(p, "reset", "ok")
    /\ \A op \in {"reset", "removeSentinel", "deleteIP"} : ~Called(p, op, "err")

-----------------------------------------------------------------------------
(* Re-invocation of reconcileNormal until the host is bootstrapped.  The    *)
(* host has no cleanup annotation and no deletion timestamp and gets none;  *)
(* a claim and a bootstrap secret, once set, stay.                          *)

InitLive ==
    /\ Init
    /\ OnLadder(apiHost)
    /\ ~apiHost.clusterLabel /\ ~apiHost.clusterVersion
    /\ apiHost.endPointIP = NoAddress

\* The bootstrap secret reference is set on a host that has none.
ProvideSecret == ~apiHost.bootstrapSecret /\ ExternalSetBootstrapSecret

\* The successful outcomes of the calls an invocation makes.
FetchOk(p) == Start(p) /\ pc'[p] = "fetched"
SecretOk(p) == GetBootstrapScript(p) /\ pc'[p] = "bootstrapK8sNode"
ScriptOk(p) == BootstrapK8sNode(p) /\ pc'[p] = "patch"
PatchOk(p) == Patch(p) /\ patched'[p] = "ok"

\* The steps of an invocation after its fetch.
Step(p) ==
    \/ Dispatch(p)
    \/ GetBootstrapScript(p)
    \/ BootstrapK8sNode(p)
    \/ BootstrapFailed(p)
    \/ Patch(p)
    \/ Return(p)

NextLive ==
    \/ \E p \in Workers : Start(p) \/ Step(p)
    \/ Quiet /\ ExternalClaim
    \/ Quiet /\ ProvideSecret

\* An invocation that has started runs to its end; the host is invoked again
\* and again, is eventually claimed and given a secret; the fetch, the secret
\* read, the script and the patch that follows a successful script do not
\* fail forever.
FairLive ==
    /\ \A p \in Workers : WF_vars(Step(p))
    /\ \A p \in Workers : SF_vars(FetchOk(p))
    /\ \A p \in Workers : SF_vars(SecretOk(p))
    /\ \A p \in Workers : SF_vars(ScriptOk(p))
    /\ \A p \in Workers : SF_vars(PatchOk(p) /\ IsTrue(byoHost[p]))
    /\ SF_vars(Quiet /\ ExternalClaim)
    /\ SF_vars(Quiet /\ ProvideSecret)

SpecLive == InitLive /\ [][NextLive]_vars /\ FairLive

\* C17: a host without cleanup annotation and deletion timestamp, reconciled
\* again and again, eventually claimed and given a bootstrap secret that
\* both stay, with the secret read, the script and the patch eventually
\* succeeding: its stored K8sNodeBootstrapSucceeded condition eventually is
\* true and stays true.
C17_EventuallyBootstrapped == <>[]IsTrue(apiHost)

\* C17 witness: an invocation that read the condition left by a failed
\* execution has run the script again, successfully, and the stored condition
\* is true.
C17_Witness ==
    \E p \in Workers :
      /\ Persisted(p) /\ Called(p, "execute", "ok")
      /\ helper[p].condition = ScriptFailed
      /\ IsTrue(apiHost) /\ apiHost.machineRef /\ apiHost.bootstrapSecret

-----------------------------------------------------------------------------
(* Overlapping invocations for the one host: a second request is handled    *)
(* while the first is still running, as duplicate delivery would have it.   *)
(* The host was cleaned up earlier and has been claimed again.              *)

InitOverlap ==
    /\ Init
    /\ apiHost = [machineRef |-> TRUE, bootstrapSecret |-> TRUE,
                  cleanupAnnotation |-> FALSE, deletionTimestamp |-> FALSE,
                  endPointIP |-> "10.0.0.5", clusterLabel |-> TRUE,
                  clusterVersion |-> TRUE, condition |-> NodeAbsent]

NextOverlap ==
    \/ \E p \in Workers :
         \/ Fetch(p)
         \/ Dispatch(p)
         \/ GetBootstrapScript(p)
         \/ BootstrapK8sNode(p)
         \/ BootstrapFailed(p)
         \/ CleanupReset(p)
         \/ CleanupSentinel(p)
         \/ CleanupReleaseIP(p)
         \/ Patch(p)
         \/ Return(p)
    \/ ExternalRequestCleanup

SpecOverlap == InitOverlap /\ [][NextOverlap]_vars

\* Workers p and q both ran the bootstrap on the same object as read, both
\* scripts succeeded and both invocations have returned.  Under SpecOverlap
\* a claimed host's stored condition never returns to a value it has left,
\* so the two fetches both came before either patch.
RacedBootstrap(p, q) ==
    /\ p # q
    /\ pc[p] = "done" /\ pc[q] = "done"
    /\ branch[p] = {"bootstrapping"} /\ branch[q] = {"bootstrapping"}
    /\ helper[p] = helper[q]
    /\ IsTrue(byoHost[p]) /\ IsTrue(byoHost[q])

\* C12: of two invocations that race a bootstrap, both having read the host
\* before either wrote, the store does not accept both patches: the later
\* one, made from a stale read, is rejected.
C12_StaleWriteRejected ==
    \A p, q \in Workers :
      RacedBootstrap(p, q) => ~(patched[p] = "ok" /\ patched[q] = "ok")

\* C20: the stored object never has a true K8sNodeBootstrapSucceeded
\* condition together with an absent machine reference, also when a
\* bootstrap and a cleanup of the host overlap.
C20_TrueOnlyWhileClaimed == IsTrue(apiHost) => apiHost.machineRef

====
